---------------------------- MODULE Spec2Model ----------------------------
(***************************************************************************)
(* Compound (conjugate) distributions of numpyro/distributions/conjugate.py*)
(* -- BetaBinomial, DirichletMultinomial, GammaPoisson -- together with    *)
(* the numerical utilities exercised by test/test_util.py (xlogy, xlog1py, *)
(* welford_covariance).                                                    *)
(*                                                                         *)
(* Numbers are exact rationals <<num, den>>.  A value in the log domain is *)
(* log(r * Gamma(1/2)^h) for a positive rational r and an integer h, or    *)
(* one of +inf, -inf, nan; this is closed under gammaln of integer and     *)
(* half-integer arguments and under the sums the densities take.           *)
(* An array is its shape and its row of values along the last axis, the    *)
(* row being repeated over the leading axes (a row of length 1 fills the   *)
(* last axis too).                                                         *)
(***************************************************************************)
EXTENDS Integers, Sequences, FiniteSets, TLC

VARIABLES
    args,     \* arguments of the last constructor call
    dist,     \* the distribution object the constructor yielded, or NoDist
    err,      \* "none" | "ok" | "ValueError": how the constructor call ended
    out,      \* result of the last log_prob, mean or variance call on dist
    call,     \* the last sample call on dist: its key and what it did with keys
    welford,  \* a welford_covariance accumulator and the samples fed to it
    xl        \* the last xlogy / xlog1py call

vars == <<args, dist, err, out, call, welford, xl>>

----------------------------------------------------------------------------
(* Bounds *)

MaxRank == 1      \* rank of a parameter's batch shape

----------------------------------------------------------------------------
(* Exact rational arithmetic *)

Abs(x) == IF x < 0 THEN -x ELSE x

RECURSIVE GCD(_, _)
GCD(a, b) == IF b = 0 THEN a ELSE GCD(b, a % b)

Rat(n, d) ==
    LET g == GCD(Abs(n), Abs(d))
        s == IF d < 0 THEN -1 ELSE 1
    IN  <<(s * n) \div g, (s * d) \div g>>

R(n) == <<n, 1>>
Half(n) == Rat(n, 2)

RMul(a, b) ==
    IF a[1] = 0 \/ b[1] = 0 THEN <<0, 1>>
    ELSE LET g1 == GCD(Abs(a[1]), b[2])
             g2 == GCD(Abs(b[1]), a[2])
         IN  <<(a[1] \div g1) * (b[1] \div g2), (a[2] \div g2) * (b[2] \div g1)>>

RAdd(a, b) ==
    LET g == GCD(a[2], b[2])
        l == (a[2] \div g) * b[2]
    IN  Rat(a[1] * (l \div a[2]) + b[1] * (l \div b[2]), l)

RNeg(a) == <<-a[1], a[2]>>
RSub(a, b) == RAdd(a, RNeg(b))
RInv(a) == IF a[1] < 0 THEN <<-a[2], -a[1]>> ELSE <<a[2], a[1]>>
RDiv(a, b) == RMul(a, RInv(b))
RAbs(a) == <<Abs(a[1]), a[2]>>
RLt(a, b) == a[1] * b[2] < b[1] * a[2]
RLe(a, b) == a[1] * b[2] <= b[1] * a[2]
IsInt(a) == a[2] = 1

RECURSIVE RPow(_, _)
RPow(a, k) == IF k = 0 THEN <<1, 1>>
              ELSE IF k < 0 THEN RInv(RPow(a, -k))
              ELSE RMul(a, RPow(a, k - 1))

RECURSIVE RSum(_)
RSum(s) == IF s = <<>> THEN <<0, 1>> ELSE RAdd(Head(s), RSum(Tail(s)))

----------------------------------------------------------------------------
(* Shapes and broadcasting (jax.lax.broadcast_shapes, jnp.shape) *)

BAD == <<0>>      \* no shape: the call raised

Pad(s, r) == [i \in 1..r |-> IF i <= r - Len(s) THEN 1 ELSE s[i - (r - Len(s))]]

Max(a, b) == IF a >= b THEN a ELSE b

Broadcast2(a, b) ==
    IF a = BAD \/ b = BAD THEN BAD
    ELSE LET r == Max(Len(a), Len(b))
             pa == Pad(a, r)
             pb == Pad(b, r)
         IN  IF \A i \in 1..r : pa[i] = pb[i] \/ pa[i] = 1 \/ pb[i] = 1
             THEN [i \in 1..r |-> IF pa[i] = 1 THEN pb[i] ELSE pa[i]]
             ELSE BAD

RECURSIVE broadcast_shapes(_)
broadcast_shapes(shapes) ==
    IF Len(shapes) = 1 THEN shapes[1]
    ELSE Broadcast2(shapes[1], broadcast_shapes(Tail(shapes)))

\* numpyro.distributions.util.promote_shapes: every argument of lower rank
\* than the broadcast of `shape` and all arguments gets leading axes of
\* size 1; nothing is expanded.  Raises when the shapes do not broadcast.
promote_shapes(shapes, shape) ==
    IF Len(shapes) < 2 /\ shape = <<>> THEN shapes
    ELSE LET b == broadcast_shapes(<<shape>> \o shapes)
         IN  IF b = BAD THEN [i \in DOMAIN shapes |-> BAD]
             ELSE [i \in DOMAIN shapes |->
                     IF Len(shapes[i]) < Len(b) THEN Pad(shapes[i], Len(b))
                     ELSE shapes[i]]

\* jnp.broadcast_to(a, shape)
broadcast_to(a, shape) == [a EXCEPT !.shape = shape]

Arr(shape, row) == [shape |-> shape, val |-> row]
Elements(a) == {a.val[i] : i \in DOMAIN a.val}
ndim(a) == Len(a.shape)
\* shape[:-1] and shape[-1:]
ButLast(s) == IF s = <<>> THEN <<>> ELSE SubSeq(s, 1, Len(s) - 1)
LastAxis(s) == IF s = <<>> THEN <<>> ELSE SubSeq(s, Len(s), Len(s))

----------------------------------------------------------------------------
(* Constraints (numpyro.distributions.constraints) *)

positive(x) == RLt(<<0, 1>>, x)
nonnegative_integer(x) == RLe(<<0, 1>>, x) /\ IsInt(x)
integer_interval(lo, hi, x) == RLe(lo, x) /\ RLe(x, hi) /\ IsInt(x)

Satisfies(c, x) ==
    CASE c = "positive" -> positive(x)
      [] c = "nonnegative_integer" -> nonnegative_integer(x)

\* class attribute arg_constraints of each distribution
BetaBinomial_arg_constraints ==
    [concentration1 |-> "positive", concentration0 |-> "positive",
     total_count |-> "nonnegative_integer"]

DirichletMultinomial_arg_constraints ==
    [concentration |-> "positive", total_count |-> "nonnegative_integer"]

GammaPoisson_arg_constraints ==
    [concentration |-> "positive", rate |-> "positive"]

----------------------------------------------------------------------------
(* Construction *)

NoDist == [kind |-> "none"]
Raise == [err |-> "ValueError", dist |-> NoDist]
Ok(self) == [err |-> "ok", dist |-> self]

\* Distribution.__init__(batch_shape, event_shape, validate_args): with
\* validation on, every parameter named in arg_constraints is checked.
\* validate_args = None keeps the class default, which is off.
DistributionInit(self, arg_constraints) ==
    IF self.validate_args
       /\ \E p \in DOMAIN arg_constraints :
             \E x \in Elements(self[p]) : ~Satisfies(arg_constraints[p], x)
    THEN Raise
    ELSE Ok(self)

\* Beta(concentration1, concentration0), Gamma(concentration, rate): the
\* batch shape of the prior is the broadcast of its parameters' shapes.
PriorInit(a, b) == [batch_shape |-> Broadcast2(a.shape, b.shape), event_shape |-> <<>>]

\* Dirichlet(concentration): the last axis is the event axis.
DirichletInit(c) == [batch_shape |-> ButLast(c.shape), event_shape |-> LastAxis(c.shape)]

\* A slip: total_count is stored as passed, not promoted with the others.
BetaBinomialStored_CountAsPassed(concentration1, concentration0, total_count) ==
    promote_shapes(<<concentration1.shape, concentration0.shape>>, <<>>)
        \o <<total_count.shape>>

\* self.concentration1, self.concentration0, self.total_count = promote_shapes(...)
BetaBinomialStored(concentration1, concentration0, total_count) ==
    promote_shapes(<<concentration1.shape, concentration0.shape, total_count.shape>>, <<>>)

\* A slip: total_count's shape is left out of the broadcast.
BetaBinomialBatchShape_NoCount(concentration1, concentration0, total_count) ==
    broadcast_shapes(<<concentration1.shape, concentration0.shape>>)

BetaBinomialBatchShape(concentration1, concentration0, total_count) ==
    broadcast_shapes(<<concentration1.shape, concentration0.shape, total_count.shape>>)

BetaBinomialInit(concentration1, concentration0, total_count, validate_args) ==
    LET promoted == BetaBinomialStored(concentration1, concentration0, total_count)
    IN  IF promoted[1] = BAD THEN Raise
        ELSE
        LET batch_shape == BetaBinomialBatchShape(concentration1, concentration0, total_count)
            c1 == broadcast_to(concentration1, batch_shape)
            c0 == broadcast_to(concentration0, batch_shape)
        IN  DistributionInit(
              [kind |-> "BetaBinomial",
               concentration1 |-> Arr(promoted[1], concentration1.val),
               concentration0 |-> Arr(promoted[2], concentration0.val),
               total_count |-> Arr(promoted[3], total_count.val),
               prior |-> PriorInit(c1, c0),
               batch_shape |-> batch_shape,
               event_shape |-> <<>>,
               validate_args |-> validate_args],
              BetaBinomial_arg_constraints)

\* A slip: the rank check is left out.
RankTooLow_Unchecked(concentration) == FALSE

\* if jnp.ndim(concentration) < 1: raise ValueError
RankTooLow(concentration) == ndim(concentration) < 1

DirichletMultinomialInit(concentration, total_count, validate_args) ==
    IF RankTooLow(concentration) THEN Raise
    ELSE
    LET batch_shape == Broadcast2(ButLast(concentration.shape), total_count.shape)
    IN  IF batch_shape = BAD THEN Raise
        ELSE
        LET concentration_shape == batch_shape \o LastAxis(concentration.shape)
            pc == promote_shapes(<<concentration.shape>>, concentration_shape)
            pt == promote_shapes(<<total_count.shape>>, batch_shape)
            dirichlet == DirichletInit(broadcast_to(Arr(pc[1], concentration.val),
                                                    concentration_shape))
        IN  DistributionInit(
              [kind |-> "DirichletMultinomial",
               concentration |-> Arr(pc[1], concentration.val),
               total_count |-> Arr(pt[1], total_count.val),
               prior |-> dirichlet,
               batch_shape |-> dirichlet.batch_shape,
               event_shape |-> dirichlet.event_shape,
               validate_args |-> validate_args],
              DirichletMultinomial_arg_constraints)

GammaPoissonInit(concentration, rate, validate_args) ==
    LET promoted == promote_shapes(<<concentration.shape, rate.shape>>, <<>>)
    IN  IF promoted[1] = BAD THEN Raise
        ELSE
        LET gamma == PriorInit(concentration, rate)
        IN  DistributionInit(
              [kind |-> "GammaPoisson",
               concentration |-> Arr(promoted[1], concentration.val),
               rate |-> Arr(promoted[2], rate.val),
               prior |-> gamma,
               batch_shape |-> gamma.batch_shape,
               event_shape |-> <<>>,
               validate_args |-> validate_args],
              GammaPoisson_arg_constraints)

----------------------------------------------------------------------------
(* Log-domain numbers: k = "fin" stands for (1/2) * SUM e[p] * log(p) over  *)
(* the primes p, plus (pi/2) * log(pi); otherwise +inf, -inf or nan.        *)

MaxCount == 5         \* total_count and observed counts
MaxConc2 == 3         \* concentrations are 1/2, 2/2, ..., MaxConc2/2
MaxCategories == 2    \* length of the category axis
MaxTrials == 3        \* total_count of a DirichletMultinomial

PrimeLimit == 4 * (MaxCount + MaxConc2 + 2)
IsPrime(p) == p > 1 /\ \A d \in 2..(p - 1) : p % d # 0
Primes == {p \in 2..PrimeLimit : IsPrime(p)}

ZeroE == [p \in Primes |-> 0]
Fin(e, pi) == [k |-> "fin", e |-> e, pi |-> pi]
Zero == Fin(ZeroE, 0)
PInf == [k |-> "pinf", e |-> ZeroE, pi |-> 0]
NInf == [k |-> "ninf", e |-> ZeroE, pi |-> 0]
NaN == [k |-> "nan", e |-> ZeroE, pi |-> 0]
HalfLogPi == Fin(ZeroE, 1)

RECURSIVE Vp(_, _)
Vp(n, p) == IF n % p = 0 THEN 1 + Vp(n \div p, p) ELSE 0

Covered(n) == \A q \in (PrimeLimit + 1)..n : ~(n % q = 0 /\ IsPrime(q))

\* log of a positive integer
LogNat(n) ==
    IF Covered(n) THEN Fin([p \in Primes |-> 2 * Vp(n, p)], 0)
    ELSE NaN

LNeg(a) ==
    CASE a.k = "fin" -> Fin([p \in Primes |-> -a.e[p]], -a.pi)
      [] a.k = "pinf" -> NInf
      [] a.k = "ninf" -> PInf
      [] OTHER -> NaN

LAdd(a, b) ==
    CASE a.k = "nan" \/ b.k = "nan" -> NaN
      [] a.k = "fin" /\ b.k = "fin" ->
            Fin([p \in Primes |-> a.e[p] + b.e[p]], a.pi + b.pi)
      [] a.k = "fin" -> b
      [] b.k = "fin" -> a
      [] a.k = b.k -> a
      [] OTHER -> NaN

LSub(a, b) == LAdd(a, LNeg(b))

\* jnp.log(x)
log(x) ==
    IF x[1] < 0 THEN NaN
    ELSE IF x[1] = 0 THEN NInf
    ELSE LSub(LogNat(x[1]), LogNat(x[2]))

\* jnp.log1p(x)
log1p(x) == log(RAdd(<<1, 1>>, x))

\* q * a for a rational q that is a multiple of 1/2
Scale(q, a) ==
    LET m == (2 * q[1]) \div q[2]
    IN  CASE a.k = "nan" \/ q[2] > 2 -> NaN
          [] a.k = "fin" -> Fin([p \in Primes |-> (a.e[p] * m) \div 2], (a.pi * m) \div 2)
          [] m = 0 -> NaN
          [] m > 0 -> a
          [] OTHER -> LNeg(a)

\* log|Gamma(x)| for x off the poles, by Gamma(x + 1) = x * Gamma(x) from
\* Gamma(1) = 1 and Gamma(1/2) = sqrt(pi)
RECURSIVE LogGamma(_)
LogGamma(x) ==
    IF x = <<1, 1>> THEN Zero
    ELSE IF x = <<1, 2>> THEN HalfLogPi
    ELSE IF x[1] > 0 THEN
        LET y == RSub(x, <<1, 1>>) IN LAdd(log(y), LogGamma(y))
    ELSE LSub(LogGamma(RAdd(x, <<1, 1>>)), log(RAbs(x)))

\* jax.scipy.special.gammaln
gammaln(x) ==
    IF x[2] > 2 THEN NaN
    ELSE IF IsInt(x) /\ x[1] <= 0 THEN PInf
    ELSE LogGamma(x)

\* jax.scipy.special.betaln
betaln(a, b) == LSub(LAdd(gammaln(a), gammaln(b)), gammaln(RAdd(a, b)))

IsFinite(a) == a.k = "fin"

RECURSIVE ExpOver(_, _)
ExpOver(e, ps) ==
    IF ps = {} THEN <<1, 1>>
    ELSE LET p == CHOOSE x \in ps : TRUE
         IN  RMul(RPow(<<p, 1>>, e[p] \div 2), ExpOver(e, ps \ {p}))

\* exp(a) when it is rational
IsRational(a) == a.k = "fin" /\ a.pi = 0 /\ \A p \in Primes : a.e[p] % 2 = 0
Exp(a) == ExpOver(a.e, Primes)

----------------------------------------------------------------------------
(* Densities and moments *)

\* The row of an array along its last axis, written out.
Row(a) ==
    IF a.shape = <<>> \/ Len(a.val) = a.shape[Len(a.shape)] THEN a.val
    ELSE [i \in 1..a.shape[Len(a.shape)] |-> a.val[1]]

Scalar(a) == a.val[1]

\* A slip: the count-normalisation term with gammaln(value) for gammaln(1 + value).
_log_beta_1_NoPlusOne(alpha, value) ==
    LSub(LAdd(gammaln(value), gammaln(alpha)), gammaln(RAdd(value, alpha)))

_log_beta_1(alpha, value) ==
    LSub(LAdd(gammaln(RAdd(<<1, 1>>, value)), gammaln(alpha)),
         gammaln(RAdd(value, alpha)))

BetaBinomial_log_prob(self, value) ==
    LET total_count == Scalar(self.total_count)
        concentration1 == Scalar(self.concentration1)
        concentration0 == Scalar(self.concentration0)
    IN  LSub(LAdd(LNeg(_log_beta_1(RAdd(RSub(total_count, value), <<1, 1>>), value)),
                  betaln(RAdd(value, concentration1),
                         RAdd(RSub(total_count, value), concentration0))),
             betaln(concentration0, concentration1))

RECURSIVE LSum(_)
LSum(s) == IF s = <<>> THEN Zero ELSE LAdd(Head(s), LSum(Tail(s)))

\* A slip: the normalisation over the summed counts is left out.
DirichletMultinomial_log_prob_NoNorm(self, value) ==
    LET alpha == Row(self.concentration)
    IN  LNeg(LSum([i \in DOMAIN alpha |-> _log_beta_1(alpha[i], value[i])]))

\* value is the row of counts along the category axis
DirichletMultinomial_log_prob(self, value) ==
    LET alpha == Row(self.concentration)
    IN  LSub(_log_beta_1(RSum(alpha), RSum(value)),
             LSum([i \in DOMAIN alpha |-> _log_beta_1(alpha[i], value[i])]))

GammaPoisson_log_prob(self, value) ==
    LET concentration == Scalar(self.concentration)
        rate == Scalar(self.rate)
        post_value == RAdd(concentration, value)
    IN  LSub(LAdd(LSub(LNeg(betaln(concentration, RAdd(value, <<1, 1>>))),
                       log(post_value)),
                  Scale(concentration, log(rate))),
             Scale(post_value, log1p(rate)))

\* constraints.multinomial(upper_bound)
multinomial(upper_bound, x) ==
    /\ \A i \in DOMAIN x : RLe(<<0, 1>>, x[i])
    /\ RSum(x) = upper_bound

\* A slip: the interval reaches one past total_count.
BetaBinomial_support_OneMore(self, value) ==
    integer_interval(<<0, 1>>, RAdd(Scalar(self.total_count), <<1, 1>>), value)

BetaBinomial_support(self, value) ==
    integer_interval(<<0, 1>>, Scalar(self.total_count), value)

DirichletMultinomial_support(self, value) ==
    multinomial(Scalar(self.total_count), value)

GammaPoisson_support(self, value) == nonnegative_integer(value)

support(self, value) ==
    CASE self.kind = "BetaBinomial" -> BetaBinomial_support(self, value)
      [] self.kind = "DirichletMultinomial" -> DirichletMultinomial_support(self, value)
      [] self.kind = "GammaPoisson" -> GammaPoisson_support(self, value)

\* The undecorated method of each class.
log_prob_fn(self, value) ==
    CASE self.kind = "BetaBinomial" -> BetaBinomial_log_prob(self, value)
      [] self.kind = "DirichletMultinomial" -> DirichletMultinomial_log_prob(self, value)
      [] self.kind = "GammaPoisson" -> GammaPoisson_log_prob(self, value)

\* @validate_sample: with validation on, a value outside the support is a
\* validation failure.
validate_sample(self, value) ==
    IF self.validate_args /\ ~support(self, value)
    THEN [op |-> "log_prob", value |-> value, raised |-> TRUE, res |-> NaN]
    ELSE [op |-> "log_prob", value |-> value, raised |-> FALSE,
          res |-> log_prob_fn(self, value)]

\* Beta.mean, Beta.variance
Beta_mean(c1, c0) == RDiv(c1, RAdd(c1, c0))
Beta_variance(c1, c0) ==
    LET total == RAdd(c1, c0)
    IN  RDiv(RMul(c1, c0), RMul(RMul(total, total), RAdd(total, <<1, 1>>)))

BetaBinomial_mean(self) ==
    RMul(Beta_mean(Scalar(self.concentration1), Scalar(self.concentration0)),
         Scalar(self.total_count))

\* A slip: the over-dispersion factor is left out.
BetaBinomial_variance_NoFactor(self) ==
    RMul(Beta_variance(Scalar(self.concentration1), Scalar(self.concentration0)),
         Scalar(self.total_count))

BetaBinomial_variance(self) ==
    RMul(RMul(Beta_variance(Scalar(self.concentration1), Scalar(self.concentration0)),
              Scalar(self.total_count)),
         RAdd(RAdd(Scalar(self.concentration0), Scalar(self.concentration1)),
              Scalar(self.total_count)))

----------------------------------------------------------------------------
(* Sampling: what a sample call does with PRNG keys *)

MaxKey == 3           \* the caller's keys are 0..MaxKey

\* jax.random.split(key): two fresh keys, the children of key in the key tree
split(key) == <<2 * key + 1, 2 * key + 2>>

Split(key) == [ev |-> "split", by |-> "random", key |-> key]
Draw(by, key) == [ev |-> "draw", by |-> by, key |-> key]

BetaBinomial_sample(self, key, sample_shape) ==
    LET key_beta == split(key)[1]
        key_binom == split(key)[2]
    IN  <<Split(key), Draw("Beta", key_beta), Draw("BinomialProbs", key_binom)>>

DirichletMultinomial_sample(self, key, sample_shape) ==
    LET key_dirichlet == split(key)[1]
        key_multinom == split(key)[2]
    IN  <<Split(key), Draw("Dirichlet", key_dirichlet),
          Draw("MultinomialProbs", key_multinom)>>

\* A slip: the Poisson draw is given the caller's key.
GammaPoisson_sample_CallerKey(self, key, sample_shape) ==
    LET key_gamma == split(key)[1]
    IN  <<Split(key), Draw("Gamma", key_gamma), Draw("Poisson", key)>>

GammaPoisson_sample(self, key, sample_shape) ==
    LET key_gamma == split(key)[1]
        key_poisson == split(key)[2]
    IN  <<Split(key), Draw("Gamma", key_gamma), Draw("Poisson", key_poisson)>>

sample(self, key, sample_shape) ==
    CASE self.kind = "BetaBinomial" -> BetaBinomial_sample(self, key, sample_shape)
      [] self.kind = "DirichletMultinomial" ->
            DirichletMultinomial_sample(self, key, sample_shape)
      [] self.kind = "GammaPoisson" -> GammaPoisson_sample(self, key, sample_shape)

----------------------------------------------------------------------------
(* welford_covariance(diagonal): init, update, final *)

MaxSamples == 3       \* samples fed to one accumulator

Zeros(dim) == [i \in 1..dim |-> <<0, 1>>]
VSub(a, b) == [i \in DOMAIN a |-> RSub(a[i], b[i])]
VAdd(a, b) == [i \in DOMAIN a |-> RAdd(a[i], b[i])]
VScale(q, a) == [i \in DOMAIN a |-> RMul(q, a[i])]
VMul(a, b) == [i \in DOMAIN a |-> RMul(a[i], b[i])]
Outer(a, b) == [i \in DOMAIN a |-> [j \in DOMAIN b |-> RMul(a[i], b[j])]]
Eye(dim) == [i \in 1..dim |-> [j \in 1..dim |-> IF i = j THEN <<1, 1>> ELSE <<0, 1>>]]
MAdd(a, b) == [i \in DOMAIN a |-> VAdd(a[i], b[i])]
MScale(q, a) == [i \in DOMAIN a |-> VScale(q, a[i])]

wc_init(dim, diagonal) ==
    [n |-> 0, mean |-> Zeros(dim),
     m2 |-> IF diagonal THEN Zeros(dim) ELSE [i \in 1..dim |-> Zeros(dim)]]

\* A slip: the second factor uses the mean from before the update.
wc_update_StaleMean(obs, state, diagonal) ==
    LET n == state.n + 1
        delta == VSub(obs, state.mean)
        mean == VAdd(state.mean, VScale(<<1, n>>, delta))
    IN  [n |-> n, mean |-> mean,
         m2 |-> IF diagonal THEN VAdd(state.m2, VMul(delta, delta))
                ELSE MAdd(state.m2, Outer(delta, delta))]

wc_update(obs, state, diagonal) ==
    LET n == state.n + 1
        delta == VSub(obs, state.mean)
        mean == VAdd(state.mean, VScale(<<1, n>>, delta))
        delta_post == VSub(obs, mean)
    IN  [n |-> n, mean |-> mean,
         m2 |-> IF diagonal THEN VAdd(state.m2, VMul(delta, delta_post))
                ELSE MAdd(state.m2, Outer(delta, delta_post))]

\* cov = m2 / (n - 1), blended towards 1e-3 * I when regularize; with
\* n <= 1 the division yields no number.
wc_final(state, diagonal, regularize) ==
    IF state.n <= 1 THEN [nan |-> TRUE, cov |-> state.m2]
    ELSE
    LET n == state.n
        dim == Len(state.mean)
        cov == IF diagonal THEN VScale(<<1, n - 1>>, state.m2)
               ELSE MScale(<<1, n - 1>>, state.m2)
        scaled == IF diagonal THEN VScale(Rat(n, n + 5), cov)
                  ELSE MScale(Rat(n, n + 5), cov)
        shrinkage == RMul(<<1, 1000>>, Rat(5, n + 5))
    IN  [nan |-> FALSE,
         cov |-> IF ~regularize THEN cov
                 ELSE IF diagonal
                 THEN VAdd(scaled, [i \in 1..dim |-> shrinkage])
                 ELSE MAdd(scaled, MScale(shrinkage, Eye(dim)))]

----------------------------------------------------------------------------
(* xlogy, xlog1py *)

MaxLen == 2           \* length of the arrays x and y

\* x * t for a number x and a log-domain number t (0 * inf is nan)
Times(x, t) == Scale(x, t)

\* where(x_ok, x * log(y), 0) on safe operands: where x = 0 both operands
\* are replaced by 1 before the product is taken.
xlogy1(x, y) ==
    LET x_ok == x # <<0, 1>>
        safe_x == IF x_ok THEN x ELSE <<1, 1>>
        safe_y == IF x_ok THEN y ELSE <<1, 1>>
    IN  IF x_ok THEN Times(safe_x, log(safe_y)) ELSE Zero

\* A slip: the plain product, with no guard at x = 0.
xlog1py1_Unguarded(x, y) == Times(x, log1p(y))

xlog1py1(x, y) ==
    LET x_ok == x # <<0, 1>>
        safe_x == IF x_ok THEN x ELSE <<1, 1>>
        safe_y == IF x_ok THEN y ELSE <<1, 1>>
    IN  IF x_ok THEN Times(safe_x, log1p(safe_y)) ELSE Zero

\* Elementwise over two rows, a row of length 1 broadcasting.
At(a, i) == IF Len(a) = 1 THEN a[1] ELSE a[i]
Broadcastable(x, y) == Len(x) = Len(y) \/ Len(x) = 1 \/ Len(y) = 1

xlogy(x, y) == [i \in 1..Max(Len(x), Len(y)) |-> xlogy1(At(x, i), At(y, i))]
xlog1py(x, y) == [i \in 1..Max(Len(x), Len(y)) |-> xlog1py1(At(x, i), At(y, i))]

\* scipy.special.xlogy, scipy.special.xlog1py: the references of the tests
sp_xlogy(x, y) == IF x = <<0, 1>> THEN Zero ELSE Times(x, log(y))
sp_xlog1py(x, y) == IF x = <<0, 1>> THEN Zero ELSE Times(x, log1p(y))

----------------------------------------------------------------------------
(* Inputs of the constructor calls *)

\* Axis sizes: 1 broadcasts against any size, 2 and 3 against neither other.
Dims == {1, 2, 3}
ShapesOfRank(r) == [1..r -> Dims]
Shapes == UNION {ShapesOfRank(r) : r \in 0..MaxRank}

ConcVals == {R(0), Half(1)}
CountVals == {R(-1), R(0), Half(1), R(2)}
RateVals == {R(0), Half(3)}

Filled(shape, x) == Arr(shape, <<x>>)

NoArgs == [kind |-> "none"]
NoOut == [op |-> "none"]
NoCall == [key |-> -1, events |-> <<>>]
NoWelford == [phase |-> "none"]
NoXl == [fn |-> "none"]

Init ==
    /\ args = NoArgs
    /\ dist = NoDist
    /\ err = "none"
    /\ out = NoOut
    /\ call = NoCall
    /\ welford = NoWelford
    /\ xl = NoXl

\* One behaviour follows one object: the constructor runs once, on it.
NotConstructed == err = "none"

Construct(a, res) ==
    /\ args' = a
    /\ dist' = res.dist
    /\ err' = res.err
    /\ out' = NoOut
    /\ UNCHANGED <<call, welford, xl>>

NewBetaBinomial(c1, c0, n, va) ==
    Construct([kind |-> "BetaBinomial", concentration1 |-> c1, concentration0 |-> c0,
               total_count |-> n, validate_args |-> va],
              BetaBinomialInit(c1, c0, n, va))

NewDirichletMultinomial(c, n, va) ==
    Construct([kind |-> "DirichletMultinomial", concentration |-> c,
               total_count |-> n, validate_args |-> va],
              DirichletMultinomialInit(c, n, va))

NewGammaPoisson(c, r, va) ==
    Construct([kind |-> "GammaPoisson", concentration |-> c, rate |-> r,
               validate_args |-> va],
              GammaPoissonInit(c, r, va))

ShapedBetaBinomial ==
    /\ NotConstructed
    /\ \E s1, s0, sn \in Shapes, x1, x0 \in ConcVals, n \in CountVals, va \in BOOLEAN :
           NewBetaBinomial(Filled(s1, x1), Filled(s0, x0), Filled(sn, n), va)

ShapedDirichletMultinomial ==
    /\ NotConstructed
    /\ \E sb, sn \in Shapes, k \in Dims \cup {0}, x \in ConcVals, n \in CountVals, va \in BOOLEAN :
           \* k = 0: a concentration of rank 0
           /\ k = 0 => sb = <<>>
           /\ NewDirichletMultinomial(Filled(IF k = 0 THEN <<>> ELSE sb \o <<k>>, x),
                                      Filled(sn, n), va)

ShapedGammaPoisson ==
    /\ NotConstructed
    /\ \E sc, sr \in Shapes, x \in ConcVals, r \in RateVals, va \in BOOLEAN :
           NewGammaPoisson(Filled(sc, x), Filled(sr, r), va)

NextShapes ==
    \/ ShapedBetaBinomial
    \/ ShapedDirichletMultinomial
    \/ ShapedGammaPoisson

SpecShapes == Init /\ [][NextShapes]_vars

----------------------------------------------------------------------------
(* Densities and moments of one distribution with scalar parameters *)

Concentrations == {Half(k) : k \in 1..MaxConc2}
Counts == {R(n) : n \in 0..MaxCount}
Trials == {R(n) : n \in 0..MaxTrials}
Rates == {Half(1), R(1), R(2)}
Halves(lo, hi) == {Half(k) : k \in (2 * lo)..(2 * hi)}

RowsOver(S, k) == [1..k -> S]

BuildBetaBinomial ==
    /\ NotConstructed
    /\ \E c1, c0 \in Concentrations, n \in Counts, va \in BOOLEAN :
           NewBetaBinomial(Arr(<<>>, <<c1>>), Arr(<<>>, <<c0>>), Arr(<<>>, <<n>>), va)

BuildDirichletMultinomial ==
    /\ NotConstructed
    /\ \E k \in 1..MaxCategories, n \in Trials, va \in BOOLEAN :
           \E c \in RowsOver(Concentrations, k) :
               NewDirichletMultinomial(Arr(<<k>>, c), Arr(<<>>, <<n>>), va)

BuildGammaPoisson ==
    /\ NotConstructed
    /\ \E c \in Concentrations, r \in Rates, va \in BOOLEAN :
           NewGammaPoisson(Arr(<<>>, <<c>>), Arr(<<>>, <<r>>), va)

\* The values log_prob is called on: in the support and around it.
Values ==
    CASE dist.kind = "BetaBinomial" -> Halves(-1, Scalar(dist.total_count)[1] + 1)
      [] dist.kind = "GammaPoisson" -> Halves(-1, MaxCount)
      [] dist.kind = "DirichletMultinomial" ->
            LET n == Scalar(dist.total_count)[1]
            IN  {x \in RowsOver({R(i) : i \in -1..(n + 1)}, dist.event_shape[1]) :
                    RSum(x)[1] \in (n - 1)..(n + 1)}
      [] OTHER -> {}

LogProb ==
    /\ err = "ok"
    /\ out = NoOut
    /\ \E value \in Values : out' = validate_sample(dist, value)
    /\ UNCHANGED <<args, dist, err, call, welford, xl>>

Mean ==
    /\ err = "ok"
    /\ out = NoOut
    /\ dist.kind = "BetaBinomial"
    /\ out' = [op |-> "mean", res |-> BetaBinomial_mean(dist)]
    /\ UNCHANGED <<args, dist, err, call, welford, xl>>

Variance ==
    /\ err = "ok"
    /\ out = NoOut
    /\ dist.kind = "BetaBinomial"
    /\ out' = [op |-> "variance", res |-> BetaBinomial_variance(dist)]
    /\ UNCHANGED <<args, dist, err, call, welford, xl>>

NextDensity ==
    \/ BuildBetaBinomial
    \/ BuildDirichletMultinomial
    \/ BuildGammaPoisson
    \/ LogProb
    \/ Mean
    \/ Variance

SpecDensity == Init /\ [][NextDensity]_vars

----------------------------------------------------------------------------
(* Sample calls *)

Keys == 0..MaxKey
SampleShapes == {<<>>, <<2>>}

Sample ==
    /\ err = "ok"
    /\ \E key \in Keys, sample_shape \in SampleShapes :
          call' = [key |-> key, sample_shape |-> sample_shape,
                   events |-> sample(dist, key, sample_shape)]
    /\ UNCHANGED <<args, dist, err, out, welford, xl>>

NextSample ==
    \/ BuildBetaBinomial
    \/ BuildDirichletMultinomial
    \/ BuildGammaPoisson
    \/ Sample

SpecSample == Init /\ [][NextSample]_vars

----------------------------------------------------------------------------
(* Feeding a Welford accumulator *)

WelfordDims == {1, 2}
Components == {R(-1), R(0), R(2)}

WcInit ==
    /\ welford.phase = "none"
    /\ \E dim \in WelfordDims, diagonal \in BOOLEAN :
          welford' = [phase |-> "open", diagonal |-> diagonal, dim |-> dim,
                      state |-> wc_init(dim, diagonal), fed |-> <<>>]
    /\ UNCHANGED <<args, dist, err, out, call, xl>>

WcUpdate ==
    /\ welford.phase = "open"
    /\ Len(welford.fed) < MaxSamples
    /\ \E x \in RowsOver(Components, welford.dim) :
          welford' = [welford EXCEPT
                        !.state = wc_update(x, welford.state, welford.diagonal),
                        !.fed = Append(welford.fed, x)]
    /\ UNCHANGED <<args, dist, err, out, call, xl>>

WcFinal ==
    /\ welford.phase = "open"
    /\ \E regularize \in BOOLEAN :
          welford' = [phase |-> "final", diagonal |-> welford.diagonal,
                      dim |-> welford.dim, state |-> welford.state,
                      fed |-> welford.fed, regularize |-> regularize,
                      result |-> wc_final(welford.state, welford.diagonal, regularize)]
    /\ UNCHANGED <<args, dist, err, out, call, xl>>

NextWelford == WcInit \/ WcUpdate \/ WcFinal

SpecWelford == Init /\ [][NextWelford]_vars

----------------------------------------------------------------------------
(* xlogy and xlog1py calls *)

Xs == {R(-1), R(0), Half(1), R(2)}
Ys == {R(-2), R(-1), R(0), R(1), R(2)}
Rows(S) == UNION {RowsOver(S, k) : k \in 1..MaxLen}

Xlogy ==
    /\ xl.fn = "none"
    /\ \E x \in Rows(Xs), y \in Rows(Ys), jit_fn \in BOOLEAN :
          /\ Broadcastable(x, y)
          /\ xl' = [fn |-> "xlogy", jit_fn |-> jit_fn, x |-> x, y |-> y,
                    res |-> xlogy(x, y)]
    /\ UNCHANGED <<args, dist, err, out, call, welford>>

Xlog1py ==
    /\ xl.fn = "none"
    /\ \E x \in Rows(Xs), y \in Rows(Ys), jit_fn \in BOOLEAN :
          /\ Broadcastable(x, y)
          /\ xl' = [fn |-> "xlog1py", jit_fn |-> jit_fn, x |-> x, y |-> y,
                    res |-> xlog1py(x, y)]
    /\ UNCHANGED <<args, dist, err, out, call, welford>>

NextXlogy == Xlogy \/ Xlog1py

SpecXlogy == Init /\ [][NextXlogy]_vars

Next == NextShapes \/ NextDensity \/ NextSample \/ NextWelford \/ NextXlogy

Spec == Init /\ [][Next]_vars

----------------------------------------------------------------------------
(* Construction: shapes and validation (C5, C6, C7) *)

\* The batch shapes of the arguments of the constructor call.
ArgShapes ==
    CASE args.kind = "BetaBinomial" ->
            {args.concentration1.shape, args.concentration0.shape, args.total_count.shape}
      [] args.kind = "GammaPoisson" ->
            {args.concentration.shape, args.rate.shape}
      [] args.kind = "DirichletMultinomial" ->
            {ButLast(args.concentration.shape), args.total_count.shape}
      [] OTHER -> {}

\* Axis j of shape s, counted from the right (1 when s has no such axis).
AxisFromRight(s, j) == IF j <= Len(s) THEN s[Len(s) + 1 - j] ELSE 1

Unbroadcastable(shapes) ==
    \E s, t \in shapes : \E j \in 1..Len(s) :
        /\ AxisFromRight(s, j) # AxisFromRight(t, j)
        /\ AxisFromRight(s, j) # 1
        /\ AxisFromRight(t, j) # 1

\* b is the broadcast of the shapes: as long as the longest, and on every axis
\* the one size other than 1 that any shape has there.
IsBroadcastOf(b, shapes) ==
    /\ \A s \in shapes : Len(s) <= Len(b)
    /\ \E s \in shapes : Len(s) = Len(b)
    /\ \A j \in 1..Len(b) :
          /\ \A s \in shapes : AxisFromRight(s, j) \in {1, AxisFromRight(b, j)}
          /\ \E s \in shapes : AxisFromRight(s, j) = AxisFromRight(b, j)

RankZeroConcentration ==
    args.kind = "DirichletMultinomial" /\ args.concentration.shape = <<>>

NotPositive(a) == \E x \in Elements(a) : x[1] <= 0
NotCount(a) == \E x \in Elements(a) : x[1] < 0 \/ x[2] # 1

ConstraintViolated ==
    CASE args.kind = "BetaBinomial" ->
            \/ NotPositive(args.concentration1)
            \/ NotPositive(args.concentration0)
            \/ NotCount(args.total_count)
      [] args.kind = "GammaPoisson" ->
            NotPositive(args.concentration) \/ NotPositive(args.rate)
      [] args.kind = "DirichletMultinomial" ->
            NotPositive(args.concentration) \/ NotCount(args.total_count)
      [] OTHER -> FALSE

Failed == err = "ValueError" /\ dist = NoDist

C6_BatchShapeIsBroadcast ==
    err = "ok" =>
        /\ IsBroadcastOf(dist.batch_shape, ArgShapes)
        /\ dist.event_shape = IF dist.kind = "DirichletMultinomial"
                              THEN LastAxis(args.concentration.shape)
                              ELSE <<>>

C6_Witness ==
    /\ err = "ok"
    /\ dist.kind = "BetaBinomial"
    /\ args.concentration1.shape = <<>>
    /\ args.concentration0.shape = <<1>>
    /\ args.total_count.shape = <<3>>
    /\ dist.batch_shape = <<3>>
    /\ ~ConstraintViolated

\* The shapes of the parameters stored on the object, and the shape each
\* would have when broadcast in full.
Stored ==
    CASE dist.kind = "BetaBinomial" ->
            {<<dist.concentration1.shape, dist.batch_shape>>,
             <<dist.concentration0.shape, dist.batch_shape>>,
             <<dist.total_count.shape, dist.batch_shape>>}
      [] dist.kind = "GammaPoisson" ->
            {<<dist.concentration.shape, dist.batch_shape>>,
             <<dist.rate.shape, dist.batch_shape>>}
      [] dist.kind = "DirichletMultinomial" ->
            {<<dist.concentration.shape, dist.batch_shape \o dist.event_shape>>,
             <<dist.total_count.shape, dist.batch_shape>>}
      [] OTHER -> {}

----------------------------------------------------------------------------
(* Densities (C2, C3, C4) and moments (C10) *)

RECURSIVE Binomial(_, _)
Binomial(n, k) ==
    IF k = 0 \/ k = n THEN 1 ELSE Binomial(n - 1, k - 1) + Binomial(n - 1, k)

\* x (x + 1) ... (x + k - 1)
RECURSIVE Rising(_, _)
Rising(x, k) ==
    IF k = 0 THEN <<1, 1>> ELSE RMul(RAdd(x, <<k - 1, 1>>), Rising(x, k - 1))

\* C(n, v) B(v + c1, n - v + c0) / B(c1, c0), the ratio of Beta functions
\* written with rising factorials
BetaBinomialMarginal(n, v, c1, c0) ==
    RMul(<<Binomial(n, v), 1>>,
         RDiv(RMul(Rising(c1, v), Rising(c0, n - v)), Rising(RAdd(c1, c0), n)))

Called(kind, op) == err = "ok" /\ dist.kind = kind /\ out.op = op

\* C2: BetaBinomial.log_prob of an integer v in 0..total_count is the log of
\* the closed-form marginal; with concentration1 = concentration0 = 1 and
\* total_count = 5 the probability is 1/6.
C2_LogProbIsMarginal ==
    (/\ Called("BetaBinomial", "log_prob")
     /\ ~out.raised
     /\ IsInt(out.value)
     /\ 0 <= out.value[1]
     /\ out.value[1] <= Scalar(dist.total_count)[1])
    => LET n == Scalar(dist.total_count)[1]
           c1 == Scalar(dist.concentration1)
           c0 == Scalar(dist.concentration0)
       IN  /\ IsRational(out.res)
           /\ Exp(out.res) = BetaBinomialMarginal(n, out.value[1], c1, c0)
           /\ (n = 5 /\ c1 = <<1, 1>> /\ c0 = <<1, 1>>) => Exp(out.res) = <<1, 6>>

C2_Witness ==
    /\ Called("BetaBinomial", "log_prob")
    /\ Scalar(dist.total_count) = <<5, 1>>
    /\ Scalar(dist.concentration1) = <<1, 1>>
    /\ Scalar(dist.concentration0) = <<1, 1>>
    /\ out.value = <<3, 1>>
    /\ ~out.raised
    /\ Exp(out.res) = <<1, 6>>

\* x is a row of non-negative integers that sum to n.
IsComposition(x, n) ==
    /\ \A i \in DOMAIN x : x[i][2] = 1 /\ x[i][1] >= 0
    /\ RSum(x) = <<n, 1>>

Compositions(n, k) ==
    {x \in RowsOver({R(i) : i \in 0..n}, k) : IsComposition(x, n)}

RECURSIVE MassOver(_, _)
MassOver(self, xs) ==
    IF xs = {} THEN <<0, 1>>
    ELSE LET x == CHOOSE y \in xs : TRUE
         IN  RAdd(Exp(log_prob_fn(self, x)), MassOver(self, xs \ {x}))

\* C3: DirichletMultinomial.log_prob is finite on every row of non-negative
\* integer counts summing to total_count, and exp(log_prob) summed over all
\* those rows is 1.
C3_FiniteAndNormalised ==
    /\ (Called("DirichletMultinomial", "log_prob") /\ ~out.raised
        /\ IsComposition(out.value, Scalar(dist.total_count)[1]))
       => IsFinite(out.res)
    /\ Called("DirichletMultinomial", "none")
       => LET xs == Compositions(Scalar(dist.total_count)[1], dist.event_shape[1])
          IN  /\ \A x \in xs : IsRational(log_prob_fn(dist, x))
              /\ MassOver(dist, xs) = <<1, 1>>

C3_Witness ==
    /\ Called("DirichletMultinomial", "log_prob")
    /\ dist.event_shape = <<2>>
    /\ Scalar(dist.total_count) = <<3, 1>>
    /\ out.value = <<<<1, 1>>, <<2, 1>>>>
    /\ IsFinite(out.res)

OutsideSupport ==
    CASE dist.kind = "BetaBinomial" ->
            ~(out.value[2] = 1 /\ 0 <= out.value[1]
              /\ out.value[1] <= Scalar(dist.total_count)[1])
      [] dist.kind = "GammaPoisson" ->
            ~(out.value[2] = 1 /\ 0 <= out.value[1])
      [] dist.kind = "DirichletMultinomial" ->
            ~IsComposition(out.value, Scalar(dist.total_count)[1])

\* C4: with validation on, log_prob of a value outside the declared support
\* raises; a value in the support, or any value with validation off, gets a
\* number.
C4_OutOfSupportRaises ==
    (err = "ok" /\ out.op = "log_prob")
    => (out.raised <=> (dist.validate_args /\ OutsideSupport))

C4_Witness ==
    /\ Called("DirichletMultinomial", "log_prob")
    /\ dist.validate_args
    /\ Scalar(dist.total_count) = <<3, 1>>
    /\ out.value = <<<<1, 1>>, <<1, 1>>>>
    /\ out.raised

RECURSIVE Moment(_, _, _, _)
\* SUM over v in 0..n of (v - centre)^power * exp(log_prob(v))
Moment(self, n, centre, power) ==
    IF n < 0 THEN <<0, 1>>
    ELSE RAdd(RMul(RPow(RSub(<<n, 1>>, centre), power),
                   Exp(BetaBinomial_log_prob(self, <<n, 1>>))),
              Moment(self, n - 1, centre, power))

\* C10: BetaBinomial.mean and BetaBinomial.variance are the mean and the
\* variance of the distribution log_prob defines on 0..total_count.
C10_MomentsMatchDensity ==
    LET n == Scalar(dist.total_count)[1]
    IN  /\ Called("BetaBinomial", "mean")
           => out.res = Moment(dist, n, <<0, 1>>, 1)
        /\ Called("BetaBinomial", "variance")
           => out.res = Moment(dist, n, Moment(dist, n, <<0, 1>>, 1), 2)

C10_Witness ==
    /\ Called("BetaBinomial", "variance")
    /\ Scalar(dist.total_count) = <<4, 1>>
    /\ Scalar(dist.concentration1) = <<1, 2>>
    /\ Scalar(dist.concentration0) = <<3, 2>>
    /\ out.res = <<3, 2>>

----------------------------------------------------------------------------
(* Sampling (C1) *)

PriorOf(kind) ==
    CASE kind = "BetaBinomial" -> "Beta"
      [] kind = "DirichletMultinomial" -> "Dirichlet"
      [] kind = "GammaPoisson" -> "Gamma"

LikelihoodOf(kind) ==
    CASE kind = "BetaBinomial" -> "BinomialProbs"
      [] kind = "DirichletMultinomial" -> "MultinomialProbs"
      [] kind = "GammaPoisson" -> "Poisson"

Sampled == err = "ok" /\ call.events # <<>>

\* C1: a sample call first splits the caller's key into two distinct
\* subkeys, then draws the prior with the first and the likelihood with the
\* second; no key, the caller's included, is used for two draws.
C1_SplitBeforeUseNoReuse ==
    Sampled =>
        LET e == call.events
            draws == {i \in DOMAIN e : e[i].ev = "draw"}
        IN  /\ Len(e) = 3
            /\ e[1].ev = "split" /\ e[1].key = call.key
            /\ draws = {2, 3}
            /\ e[2].by = PriorOf(dist.kind)
            /\ e[3].by = LikelihoodOf(dist.kind)
            /\ e[2].key # e[3].key
            /\ e[2].key = 2 * call.key + 1
            /\ e[3].key = 2 * call.key + 2
            /\ \A i \in draws : e[i].key # call.key
            /\ \A i, j \in draws : i # j => e[i].key # e[j].key

C1_Witness ==
    /\ Sampled
    /\ dist.kind = "GammaPoisson"
    /\ call.key = 2
    /\ call.events[3] = [ev |-> "draw", by |-> "Poisson", key |-> 6]

----------------------------------------------------------------------------
(* Welford covariance (C8) *)

SampleMean(xs) ==
    [i \in DOMAIN xs[1] |->
        RMul(<<1, Len(xs)>>, RSum([t \in DOMAIN xs |-> xs[t][i]]))]

\* SUM over t of (x_t[i] - mean[i]) (x_t[j] - mean[j]) / (k - 1)
SampleCov(xs, i, j) ==
    LET m == SampleMean(xs)
    IN  RMul(<<1, Len(xs) - 1>>,
             RSum([t \in DOMAIN xs |->
                     RMul(RSub(xs[t][i], m[i]), RSub(xs[t][j], m[j]))]))

\* C8: after k samples the count is k, and for k >= 2 final without
\* regularization returns the unbiased sample covariance of those k samples
\* (its diagonal in diagonal mode).
C8_FinalIsSampleCovariance ==
    /\ welford.phase # "none" => welford.state.n = Len(welford.fed)
    /\ (welford.phase = "final" /\ ~welford.regularize /\ Len(welford.fed) >= 2)
       => /\ ~welford.result.nan
          /\ \A i \in 1..welford.dim :
                IF welford.diagonal
                THEN welford.result.cov[i] = SampleCov(welford.fed, i, i)
                ELSE \A j \in 1..welford.dim :
                        welford.result.cov[i][j] = SampleCov(welford.fed, i, j)

C8_Witness ==
    /\ welford.phase = "final"
    /\ ~welford.regularize
    /\ ~welford.diagonal
    /\ welford.fed = <<<<R(0), R(0)>>, <<R(2), R(-1)>>, <<R(-1), R(2)>>>>
    /\ welford.result.cov[1][2] = <<-13, 6>>

----------------------------------------------------------------------------
(* xlogy, xlog1py (C9) *)

\* C9: elementwise, with x broadcast against y, xlogy and xlog1py return
\* exactly 0 where x = 0, whatever y, and x * log(y), x * log(1 + y)
\* elsewhere; they agree with the scipy references, jit-compiled or not.
C9_ZeroGuardAndReference ==
    xl.fn # "none" =>
        /\ Len(xl.res) = Max(Len(xl.x), Len(xl.y))
        /\ \A i \in DOMAIN xl.res :
              LET x == At(xl.x, i)
                  y == At(xl.y, i)
                  t == IF xl.fn = "xlogy" THEN log(y) ELSE log(RAdd(y, <<1, 1>>))
              IN  /\ x[1] = 0 => xl.res[i] = Zero
                  /\ x[1] # 0 => xl.res[i] = Scale(x, t)
                  /\ xl.res[i] = IF xl.fn = "xlogy" THEN sp_xlogy(x, y)
                                 ELSE sp_xlog1py(x, y)

C9_Witness ==
    /\ xl.fn = "xlog1py"
    /\ xl.jit_fn
    /\ xl.x = <<R(0)>>
    /\ xl.y = <<R(-1), R(-2)>>
    /\ xl.res = <<Zero, Zero>>

=============================================================================
